---- MODULE Spec2Model ----
(***************************************************************************)
(* Model of Mixtape's MetastableSwitchingLDS (src/Mixtape/mslds.py): the   *)
(* multi-restart EM driver fit, the hot start _init, score, sample and     *)
(* compute_metastable_wells.                                               *)
(*                                                                         *)
(* Arrays live on a heap (a sequence of values); the model object and the  *)
(* inference engine hold array ids, so that the aliasing the Python code   *)
(* creates (best_fit['params'] keeps references, the property setters hand *)
(* the same object to the engine) is part of the state.  Real numbers are  *)
(* exact rationals: A, b and Q in units of 1/EpsDen, probabilities as      *)
(* fractions <<numerator, denominator>>.                                   *)
(***************************************************************************)
EXTENDS Integers, Sequences, FiniteSets, TLC

\* ----------------------------------------------------------------- bounds
MaxStates == 2        \* n_states is drawn from 1..MaxStates
MaxFeatures == 2      \* n_features is drawn from 1..MaxFeatures
MaxInit == 2          \* n_init is drawn from 1..MaxInit
MaxEmIter == 2        \* n_em_iter is drawn from 1..MaxEmIter
MaxWork == 4          \* n_init * n_em_iter, the E-steps of one fit, is at most MaxWork
MaxPool == 2          \* points in the hot-start pool: 0..MaxPool
MaxLL == 2            \* outcomes of an E-step: log-likelihoods 1..MaxLL
NumSeeds == 2         \* outcomes of one randomly seeded KMeans run
MaxSamples == 3       \* n_samples is drawn from 1..MaxSamples
StreamLen == 4        \* the period of the random generator's output
DrawVals == 2         \* a raw draw is one of 0..DrawVals-1

\* n_hotstart is drawn from 0..MaxHotstart: before, at and past n_em_iter
MaxHotstart == MaxEmIter + 1

\* ------------------------------------------------------ program constants
EpsNum == 2           \* self.eps = .2 = EpsNum / EpsDen
EpsDen == 10
NegInf == 0           \* -np.inf: below every E-step log-likelihood
CovFloor == 1         \* 1e-5, the unit in which covars entries are counted

Fields == {"means_", "covars_", "As_", "bs_", "Qs_", "transmat_", "populations_"}
AllParams == {"t", "m", "c", "q", "a", "b"}
ParamSets == {AllParams, {}}

\* ------------------------------------------------------------- arithmetic
RECURSIVE SumTo(_, _)
SumTo(f, n) == IF n = 0 THEN 0 ELSE f[n] + SumTo(f, n - 1)

eye(n) == [a \in 1..n |-> [b \in 1..n |-> IF a = b THEN 1 ELSE 0]]

\* np.dot(M, v) for an n x n matrix and an n-vector
dot(M, v) == [a \in 1..Len(M) |-> SumTo([b \in 1..Len(v) |-> M[a][b] * v[b]], Len(v))]

\* fractions <<n, d>> with d > 0
FracAdd(p, q) == <<p[1] * q[2] + q[1] * p[2], p[2] * q[2]>>
RECURSIVE FracSum(_, _)
FracSum(row, n) == IF n = 0 THEN <<0, 1>> ELSE FracAdd(row[n], FracSum(row, n - 1))
IsOne(p) == p[1] = p[2]
IsDistribution(row) ==
    /\ \A k \in 1..Len(row) : row[k][1] >= 0 /\ row[k][2] > 0
    /\ IsOne(FracSum(row, Len(row)))

VARIABLES
    cfg,          \* the constructor's arguments
    mdl,          \* the model's attributes: array ids (0: None), fit_logprob_
    eng,          \* self._impl's attributes: array ids (0: None), _sequences
    heap,         \* the arrays: heap[id] is the content of array id
    pc,           \* where the running call is
    loc,          \* fit's local variables
    best_fit,     \* fit's best_fit dictionary
    trace,        \* the _init, E-step and M-step calls of the last fit or score
    hist,         \* per finished restart: what it computed (history)
    wells,        \* what compute_metastable_wells returned
    smp           \* the random generator and the sample calls

vars == <<cfg, mdl, eng, heap, pc, loc, best_fit, trace, hist, wells, smp>>

\* ------------------------------------------------------------ the objects
EngName(f) == IF f = "populations_" THEN "startprob_" ELSE f

NoModel == [means_ |-> 0, covars_ |-> 0, As_ |-> 0, bs_ |-> 0, Qs_ |-> 0,
            transmat_ |-> 0, populations_ |-> 0, vars_ |-> 0,
            fit_logprob_ |-> <<>>]
NoEngine == [means_ |-> 0, covars_ |-> 0, As_ |-> 0, bs_ |-> 0, Qs_ |-> 0,
             transmat_ |-> 0, startprob_ |-> 0, _sequences |-> 0]

\* MetastableSwitchingLDS.__init__
__init__(n_states, n_features, n_init, params, n_em_iter, n_hotstart) ==
    /\ cfg = [n_states |-> n_states, n_features |-> n_features,
              n_init |-> n_init, params |-> params, n_em_iter |-> n_em_iter,
              n_hotstart |-> n_hotstart]
    /\ mdl = NoModel
    /\ eng = NoEngine
    /\ heap = <<>>

\* A store is the part of the state the parameter code works on.
Store == [mdl |-> mdl, eng |-> eng, heap |-> heap]

\* The content of the array a reference names (<<>> for None).
Deref(h, id) == IF id = 0 THEN <<>> ELSE h[id]
ParamVals(m, h) == [f \in Fields |-> Deref(h, m[f])]
EngineVals(e, h) == [f \in Fields |-> Deref(h, e[EngName(f)])]

\* (setters that hand the engine a copy of the array, a new object)
setter_copies(S, f, id) ==
    [S EXCEPT !.mdl[f] = id,
              !.heap = Append(@, S.heap[id]),
              !.eng[EngName(f)] = Len(S.heap) + 1]

\* The property setters, given an array that is float32 and C-ordered already:
\* np.asarray returns it as it is, and model and engine share the object.
setter(S, f, id) ==
    [S EXCEPT !.mdl[f] = id, !.eng[EngName(f)] = id]

\* (setters that write a computed array into the array the model holds already)
setter_new_in_place(S, f, v) ==
    IF S.mdl[f] # 0 THEN [S EXCEPT !.heap[S.mdl[f]] = v]
    ELSE [S EXCEPT !.heap = Append(@, v),
                   !.mdl[f] = Len(S.heap) + 1,
                   !.eng[EngName(f)] = Len(S.heap) + 1]

\* The property setters, given a freshly computed float64 array: np.asarray
\* makes a float32 copy, a new object.
setter_new(S, f, v) ==
    setter([S EXCEPT !.heap = Append(@, v)], f, Len(S.heap) + 1)

\* self.X_[...] = v: the property's getter, then an in-place write.
setitem(S, f, v) == [S EXCEPT !.heap[S.mdl[f]] = v]

\* ---------------------------------------------------------------- _init
\* (a clustering that refuses only an empty pool)
kmeans_fails_empty(pool) == pool = 0

\* cluster.KMeans(n_clusters).fit(pool) refuses a pool of fewer points than
\* clusters (sklearn raises ValueError) ...
kmeans_fails(pool) == pool < cfg.n_states

\* ... and otherwise returns centers that depend on its random seeding.
cluster_centers_(seed) ==
    [k \in 1..cfg.n_states |-> [d \in 1..cfg.n_features |-> seed + k + d]]

\* np.cov(small_dataset.T): the pool's sample covariance, a function of the
\* pool alone (uncorrelated features here, so that zero entries occur).
cov(pool) ==
    [a \in 1..cfg.n_features |->
        [b \in 1..cfg.n_features |-> IF a = b THEN (pool + 1) * CovFloor ELSE 0]]

\* distribute_covar_matrix_to_match_covariance_type(cv, 'full', n_states)
distribute_covar(cv) == [k \in 1..cfg.n_states |-> cv]

\* self.covars_[self.covars_ == 0] = 1e-5
floor_zeros(cvs) ==
    [k \in 1..Len(cvs) |->
        [a \in 1..Len(cvs[k]) |->
            [b \in 1..Len(cvs[k][a]) |->
                IF cvs[k][a][b] = 0 THEN CovFloor ELSE cvs[k][a][b]]]]

\* (filled with 1.0 / (n_states + 1) instead)
uniform_transmat_off ==
    [a \in 1..cfg.n_states |-> [b \in 1..cfg.n_states |-> <<1, cfg.n_states + 1>>]]

\* transmat_.fill(1.0 / self.n_states)
uniform_transmat ==
    [a \in 1..cfg.n_states |-> [b \in 1..cfg.n_states |-> <<1, cfg.n_states>>]]

\* np.ones(self.n_states) / self.n_states
uniform_populations == [a \in 1..cfg.n_states |-> <<1, cfg.n_states>>]

zeros2 == [k \in 1..cfg.n_states |-> [a \in 1..cfg.n_features |-> 0]]
zeros3 ==
    [k \in 1..cfg.n_states |->
        [a \in 1..cfg.n_features |-> [b \in 1..cfg.n_features |-> 0]]]

\* np.eye(self.n_features) - self.eps, in units of 1/EpsDen: the scalar is
\* subtracted from every entry of the identity (numpy broadcasting).
init_A ==
    [a \in 1..cfg.n_features |->
        [b \in 1..cfg.n_features |-> EpsDen * eye(cfg.n_features)[a][b] - EpsNum]]

\* np.eye(self.n_features) - A, in units of 1/EpsDen
eye_minus(A) ==
    [a \in 1..Len(A) |-> [b \in 1..Len(A) |-> EpsDen * eye(Len(A))[a][b] - A[a][b]]]

\* np.dot(np.eye(self.n_features) - A, mean), in units of 1/EpsDen
init_b(A, mean) == dot(eye_minus(A), mean)

\* self.eps * self.covars_[i], in units of CovFloor/EpsDen
init_Q(cv) == [a \in 1..Len(cv) |-> [b \in 1..Len(cv) |-> EpsNum * cv[a][b]]]

\* _init after the clustering succeeded: the store it leaves.
_init(S, pool, seed) ==
    LET S0 == [S EXCEPT !.eng._sequences = pool]
        S1 == setter_new(S0, "means_", cluster_centers_(seed))
        S2 == setter_new(S1, "covars_", distribute_covar(cov(pool)))
        S3 == setitem(S2, "covars_", floor_zeros(Deref(S2.heap, S2.mdl.covars_)))
        S4 == setter_new(S3, "transmat_", uniform_transmat)
        S5 == setter_new(S4, "populations_", uniform_populations)
        S6 == setter_new(S5, "As_", zeros3)
        S7 == setitem(S6, "As_", [k \in 1..cfg.n_states |-> init_A])
        S8 == setter_new(S7, "bs_", zeros2)
        S9 == setitem(S8, "bs_",
                  [k \in 1..cfg.n_states |->
                      init_b(Deref(S8.heap, S8.mdl.As_)[k],
                             Deref(S8.heap, S8.mdl.means_)[k])])
        S10 == setter_new(S9, "Qs_", zeros3)
    IN  setitem(S10, "Qs_",
            [k \in 1..cfg.n_states |-> init_Q(Deref(S10.heap, S10.mdl.covars_)[k])])

\* --------------------------------------------------- the inference engine
\* MetastableSLDSCPUImpl.do_estep: the (log-likelihood, statistics) pairs it
\* can return, one per outcome; it reads the engine's parameters and changes
\* none.
do_estep_results == {<<o, o>> : o \in 1..MaxLL}

\* ------------------------------------------------------------- the M-step
\* Expected transition counts held by the statistics s.
counts(s) ==
    [a \in 1..cfg.n_states |->
        [b \in 1..cfg.n_states |-> IF a = b THEN s ELSE s - 1]]

\* transmat: expected transition counts, smoothed, over the row's total.
mstep_transmat(s) ==
    [a \in 1..cfg.n_states |->
        [b \in 1..cfg.n_states |->
            <<counts(s)[a][b] + 1, SumTo(counts(s)[a], cfg.n_states) + cfg.n_states>>]]

\* populations: expected occupancy counts, smoothed, over the total.
mstep_populations(s) ==
    LET occ == [a \in 1..cfg.n_states |-> SumTo(counts(s)[a], cfg.n_states)]
    IN  [a \in 1..cfg.n_states |->
            <<occ[a] + 1, SumTo(occ, cfg.n_states) + cfg.n_states>>]

mstep_means(s) ==
    [k \in 1..cfg.n_states |-> [d \in 1..cfg.n_features |-> 10 * s + k + d]]

mstep_covars(s) ==
    [k \in 1..cfg.n_states |->
        [a \in 1..cfg.n_features |->
            [b \in 1..cfg.n_features |-> IF a = b THEN (s + k) * CovFloor ELSE CovFloor]]]

\* solve_A: infeasible for the statistics 1 (the previous A[k] is kept),
\* otherwise a stable matrix.
solve_A(s, prev) ==
    IF s = 1 THEN prev
    ELSE [a \in 1..cfg.n_features |->
            [b \in 1..cfg.n_features |-> IF a = b THEN EpsDen - EpsNum - s ELSE 0]]

\* solve_Q: likewise.
solve_Q(s, prev) ==
    IF s = 1 THEN prev
    ELSE [a \in 1..cfg.n_features |->
            [b \in 1..cfg.n_features |-> IF a = b THEN s * CovFloor ELSE 0]]

\* _do_mstep(stats, params, i): each named parameter is recomputed and
\* assigned through its property.
_do_mstep(S, s, params) ==
    LET T1 == IF "t" \in params
              THEN setter_new(setter_new(S, "transmat_", mstep_transmat(s)),
                              "populations_", mstep_populations(s))
              ELSE S
        T2 == IF "m" \in params THEN setter_new(T1, "means_", mstep_means(s)) ELSE T1
        T3 == IF "c" \in params THEN setter_new(T2, "covars_", mstep_covars(s)) ELSE T2
        T4 == IF "a" \in params
              THEN setter_new(T3, "As_",
                      [k \in 1..cfg.n_states |->
                          solve_A(s, Deref(T3.heap, T3.mdl.As_)[k])])
              ELSE T3
        T5 == IF "q" \in params
              THEN setter_new(T4, "Qs_",
                      [k \in 1..cfg.n_states |->
                          solve_Q(s, Deref(T4.heap, T4.mdl.Qs_)[k])])
              ELSE T4
    IN  IF "b" \in params
        THEN setter_new(T5, "bs_",
                [k \in 1..cfg.n_states |->
                    init_b(Deref(T5.heap, T5.mdl.As_)[k],
                           Deref(T5.heap, T5.mdl.means_)[k])])
        ELSE T5

\* ------------------------------------------------------------------- fit
NoLocals == [r |-> 0, i |-> 0, fit_logprob |-> <<>>, curr_logprob |-> NegInf,
             stats |-> 0, sequences |-> 0, raised |-> ""]
NoBest == [params |-> <<>>, loglikelihood |-> NegInf]
NoHist == [lls |-> <<>>, atE |-> <<>>, restarts |-> <<>>]

Event(op, by) == [op |-> op, by |-> by, r |-> loc.r, i |-> loc.i]

\* (what a handler around the restart's body would do: give the restart up and
\* go on with the next one)
propagate_skips_restart(kind) ==
    /\ pc' = IF loc.r + 1 < cfg.n_init THEN "init"
             ELSE IF best_fit.params = <<>> THEN "raised" ELSE "final"
    /\ loc' = [loc EXCEPT !.raised = kind,
                          !.r = IF loc.r + 1 < cfg.n_init THEN @ + 1 ELSE @]
    /\ UNCHANGED <<best_fit, hist>>

\* An exception leaves fit: nothing in fit catches it, so the call ends where
\* the exception was raised, with the model as that statement left it.
propagate(kind) ==
    /\ pc' = "raised"
    /\ loc' = [loc EXCEPT !.raised = kind]
    /\ UNCHANGED <<best_fit, hist>>

\* fit(sequences), up to the first restart: n_obs and best_fit are set.
fit ==
    /\ pc = "idle"
    /\ \E pool \in 0..MaxPool :
          /\ ~(pool = 1 /\ cfg.n_states = 1)   \* one point has no covariance
          /\ loc' = [NoLocals EXCEPT !.sequences = pool]
    /\ best_fit' = NoBest
    /\ hist' = NoHist
    /\ trace' = <<>>
    /\ pc' = "init"
    /\ UNCHANGED <<cfg, mdl, eng, heap, wells, smp>>

\* for r in range(self.n_init): fit_logprob = []; self._init(sequences)
fit_init ==
    /\ pc = "init"
    /\ kmeans_fails(loc.sequences) = FALSE
    /\ \E seed \in 1..NumSeeds :
          LET S == _init(Store, loc.sequences, seed)
          IN  /\ mdl' = S.mdl
              /\ eng' = S.eng
              /\ heap' = S.heap
    /\ loc' = [loc EXCEPT !.fit_logprob = <<>>, !.i = 0]
    /\ hist' = [hist EXCEPT !.lls = <<>>, !.atE = <<>>]
    /\ trace' = Append(trace, Event("INIT", "fit"))
    /\ pc' = "estep"
    /\ UNCHANGED <<cfg, best_fit, wells, smp>>

\* self._init(sequences) when the clustering raises: the sequences are stored
\* in the engine, no parameter is assigned.
fit_init_raises ==
    /\ pc = "init"
    /\ kmeans_fails(loc.sequences)
    /\ eng' = [eng EXCEPT !._sequences = loc.sequences]
    /\ trace' = Append(trace, Event("INIT", "fit"))
    /\ propagate("ValueError")
    /\ UNCHANGED <<cfg, mdl, heap, wells, smp>>

\* if i >= self.n_hotstart: the iteration's likelihood is recorded
recorded_after(i) == i > cfg.n_hotstart
recorded(i) == i >= cfg.n_hotstart

\* curr_logprob, stats = self._impl.do_estep(i)
\* if i >= self.n_hotstart: fit_logprob.append(curr_logprob)
fit_estep ==
    /\ pc = "estep"
    /\ \E res \in do_estep_results :
          loc' = [loc EXCEPT
                    !.curr_logprob = res[1],
                    !.stats = res[2],
                    !.fit_logprob = IF recorded(loc.i)
                                    THEN Append(@, res[1]) ELSE @]
    /\ hist' = [hist EXCEPT !.lls = Append(@, loc'.curr_logprob),
                            !.atE = EngineVals(eng, heap)]
    /\ trace' = Append(trace, Event("E", "fit"))
    /\ pc' = "mstep"
    /\ UNCHANGED <<cfg, mdl, eng, heap, best_fit, wells, smp>>

\* do_estep raises (a singular covariance, a diverging likelihood).
fit_estep_raises ==
    /\ pc = "estep"
    /\ trace' = Append(trace, Event("E", "fit"))
    /\ propagate("NumericalInstabilityError")
    /\ UNCHANGED <<cfg, mdl, eng, heap, wells, smp>>

\* (an M-step after which the next iteration starts at its M-step, with the
\* statistics of the E-step before)
fit_mstep_no_estep ==
    /\ pc = "mstep"
    /\ LET S == _do_mstep(Store, loc.stats, cfg.params)
       IN  /\ mdl' = S.mdl
           /\ eng' = S.eng
           /\ heap' = S.heap
    /\ trace' = Append(trace, Event("M", "fit"))
    /\ loc' = [loc EXCEPT !.i = @ + 1]
    /\ pc' = IF loc.i + 1 < cfg.n_em_iter THEN "mstep" ELSE "select"
    /\ UNCHANGED <<cfg, best_fit, hist, wells, smp>>

\* self._do_mstep(stats, set(self.params), i), and the loop's next turn
fit_mstep ==
    /\ pc = "mstep"
    /\ LET S == _do_mstep(Store, loc.stats, cfg.params)
       IN  /\ mdl' = S.mdl
           /\ eng' = S.eng
           /\ heap' = S.heap
    /\ trace' = Append(trace, Event("M", "fit"))
    /\ loc' = [loc EXCEPT !.i = @ + 1]
    /\ pc' = IF loc.i + 1 < cfg.n_em_iter THEN "estep" ELSE "select"
    /\ UNCHANGED <<cfg, best_fit, hist, wells, smp>>

\* The references best_fit['params'] takes when the restart is the best so far.
snapshot ==
    [means |-> mdl.means_, covars |-> mdl.covars_, As |-> mdl.As_,
     bs |-> mdl.bs_, Qs |-> mdl.Qs_, populations |-> mdl.populations_,
     transmat |-> mdl.transmat_, fit_logprob |-> loc.fit_logprob]

\* if curr_logprob > best_fit['loglikelihood']: ..., and the next restart
fit_select ==
    /\ pc = "select"
    /\ best_fit' = IF loc.curr_logprob > best_fit.loglikelihood
                   THEN [params |-> snapshot, loglikelihood |-> loc.curr_logprob]
                   ELSE best_fit
    /\ hist' = [hist EXCEPT !.restarts =
                   Append(@, [ll |-> loc.curr_logprob, lls |-> hist.lls,
                              atE |-> hist.atE, end |-> ParamVals(mdl, heap)])]
    /\ loc' = [loc EXCEPT !.r = @ + 1]
    /\ pc' = IF loc.r + 1 < cfg.n_init THEN "init" ELSE "final"
    /\ UNCHANGED <<cfg, mdl, eng, heap, trace, wells, smp>>

\* "Set the final values": six properties and the attribute vars_ are
\* assigned from best_fit['params'].
restore(S, bp) ==
    LET R1 == setter(S, "means_", bp.means)
        R2 == [R1 EXCEPT !.mdl.vars_ = bp.covars]
        R3 == setter(R2, "As_", bp.As)
        R4 == setter(R3, "bs_", bp.bs)
        R5 == setter(R4, "Qs_", bp.Qs)
        R6 == setter(R5, "transmat_", bp.transmat)
        R7 == setter(R6, "populations_", bp.populations)
    IN  [R7 EXCEPT !.mdl.fit_logprob_ = bp.fit_logprob]

fit_final ==
    /\ pc = "final"
    /\ IF best_fit.params = <<>>
       THEN /\ propagate("KeyError")
            /\ UNCHANGED <<mdl, eng, heap>>
       ELSE /\ LET S == restore(Store, best_fit.params)
               IN  /\ mdl' = S.mdl
                   /\ eng' = S.eng
                   /\ heap' = S.heap
            /\ pc' = "done"
            /\ UNCHANGED <<loc, best_fit, hist>>
    /\ UNCHANGED <<cfg, trace, wells, smp>>

\* ----------------------------------------------------------------- score
\* (score with an M-step after its E-step, once parameters exist)
score_then_mstep ==
    /\ pc \in {"idle", "done", "raised"}
    /\ LET S == IF mdl.Qs_ = 0 THEN Store ELSE _do_mstep(Store, 2, AllParams)
       IN  /\ mdl' = S.mdl
           /\ heap' = S.heap
           /\ \E pool \in 1..MaxPool : eng' = [S.eng EXCEPT !._sequences = pool]
    /\ trace' = <<Event("E", "score"), Event("M", "score")>>
    /\ UNCHANGED <<cfg, pc, loc, best_fit, hist, wells, smp>>

\* score(sequences): the sequences are stored, one E-step runs.
score ==
    /\ pc \in {"idle", "done", "raised"}
    /\ \E pool \in 1..MaxPool : eng' = [eng EXCEPT !._sequences = pool]
    /\ trace' = <<Event("E", "score")>>
    /\ UNCHANGED <<cfg, mdl, heap, pc, loc, best_fit, hist, wells, smp>>

\* ------------------------------------------- compute_metastable_wells
\* The determinant of a square matrix (expansion along the first row).
RECURSIVE det(_)
det(M) ==
    IF Len(M) = 0 THEN 1
    ELSE LET n == Len(M)
             minor(j) == [a \in 1..(n - 1) |->
                            [b \in 1..(n - 1) |-> M[a + 1][IF b < j THEN b ELSE b + 1]]]
             term(j) == (IF j % 2 = 1 THEN 1 ELSE -1) * M[1][j] * det(minor(j))
         IN  SumTo([j \in 1..n |-> term(j)], n)

\* np.dot(np.linalg.inv(M), v), exactly: entry a is the fraction
\* det(M with column a replaced by v) / det(M)  (Cramer's rule).
inv_dot(M, v) ==
    [a \in 1..Len(M) |->
        <<det([r \in 1..Len(M) |-> [c \in 1..Len(M) |-> IF c = a THEN v[r] ELSE M[r][c]]]),
          det(M)>>]

\* compute_metastable_wells: wells[i] = inv(eye - As_[i]) . bs_[i] for every
\* state; np.linalg.inv raises LinAlgError on a singular matrix.
wells_of(S) ==
    LET As == Deref(S.heap, S.mdl.As_)
        bs == Deref(S.heap, S.mdl.bs_)
    IN  IF \E k \in 1..cfg.n_states : det(eye_minus(As[k])) = 0
        THEN [raised |-> "LinAlgError", wells |-> <<>>]
        ELSE [raised |-> "",
              wells |-> [k \in 1..cfg.n_states |-> inv_dot(eye_minus(As[k]), bs[k])]]

compute_metastable_wells ==
    /\ pc \in {"idle", "done"}
    /\ mdl.As_ # 0
    /\ wells' = wells_of(Store)
    /\ UNCHANGED <<cfg, mdl, eng, heap, pc, loc, best_fit, trace, hist, smp>>

\* model._init(sequences), called on a new model outside fit
call__init ==
    /\ pc = "idle"
    /\ mdl = NoModel
    /\ \E pool \in 2..MaxPool, seed \in 1..NumSeeds :
          /\ kmeans_fails(pool) = FALSE
          /\ LET S == _init(Store, pool, seed)
             IN  /\ mdl' = S.mdl
                 /\ eng' = S.eng
                 /\ heap' = S.heap
    /\ trace' = <<Event("INIT", "_init")>>
    /\ UNCHANGED <<cfg, pc, loc, best_fit, hist, wells, smp>>

Init ==
    /\ \E n_states \in 1..MaxStates, n_init \in 1..MaxInit,
          n_em_iter \in 1..MaxEmIter, n_hotstart \in 0..MaxHotstart,
          params \in ParamSets :
          /\ n_init * n_em_iter <= MaxWork
          /\ __init__(n_states, 1, n_init, params, n_em_iter, n_hotstart)
    /\ pc = "idle"
    /\ loc = NoLocals
    /\ best_fit = NoBest
    /\ trace = <<>>
    /\ hist = NoHist
    /\ wells = <<>>
    /\ smp = <<>>

Next ==
    \/ fit
    \/ fit_init
    \/ fit_init_raises
    \/ fit_estep
    \/ fit_estep_raises
    \/ fit_mstep
    \/ fit_select
    \/ fit_final
    \/ score

Spec == Init /\ [][Next]_vars

\* The hot start and the wells, for every number of features.
InitWells ==
    /\ \E n_states \in 1..MaxStates, n_features \in 1..MaxFeatures,
          n_em_iter \in 1..MaxEmIter, params \in ParamSets :
          __init__(n_states, n_features, 1, params, n_em_iter, 0)
    /\ pc = "idle"
    /\ loc = NoLocals
    /\ best_fit = NoBest
    /\ trace = <<>>
    /\ hist = NoHist
    /\ wells = <<>>
    /\ smp = <<>>

NextWells ==
    \/ call__init
    \/ compute_metastable_wells
    \/ fit
    \/ fit_init
    \/ fit_init_raises
    \/ fit_estep
    \/ fit_estep_raises
    \/ fit_mstep
    \/ fit_select
    \/ fit_final

SpecWells == InitWells /\ [][NextWells]_vars

\* ---------------------------------------------------------------- sample
\* The generator np.random: a seeded stream of raw draws, read in order.
draw(n) == smp.stream[(n % StreamLen) + 1]

\* mixtape.utils.categorical(pvals): one uniform draw u, the number of
\* cumulative sums below u. The raw draw d stands for u = (2d + 1) / (2 DrawVals).
categorical(pvals, d) ==
    Cardinality({k \in 1..Len(pvals) :
        FracSum(pvals, k)[1] * 2 * DrawVals < (2 * d + 1) * FracSum(pvals, k)[2]})

\* numpy's multivariate_normal(mean, cov) for one feature: the mean (a
\* fraction) moved by cov times the draw's deviate z = 2d + 1 - DrawVals, cov in
\* units of 1/unit.
multivariate_normal(mean, cv, unit, d) ==
    FracAdd(mean, <<cv * (2 * d + 1 - DrawVals), unit>>)

\* np.dot(A, obs[t]) + b for one feature, A and b in units of 1/EpsDen
dynamics(A, b, x) == <<A[1][1] * x[1] + b[1] * x[2], EpsDen * x[2]>>

NoCall == [active |-> FALSE, n_samples |-> 0, init_state |-> <<>>,
           init_obs |-> <<>>, start |-> 0, t |-> 0, obs |-> <<>>,
           hidden_state |-> <<>>]

\* sample(n_samples, init_state, init_obs) up to its loop: the arrays are
\* allocated and entry 0 of each is set, drawn where the argument is None.
sample ==
    /\ pc = "idle"
    /\ ~ smp.call.active
    /\ smp.second = <<>>
    /\ \E n \in 1..MaxSamples,
          s0 \in {<<>>} \cup {<<k>> : k \in 0..(cfg.n_states - 1)},
          o0 \in {<<>>, <<<<7, 1>>>>} :
          /\ smp.first # <<>> =>
                /\ n = smp.first.n_samples
                /\ s0 = smp.first.init_state
                /\ o0 = smp.first.init_obs
          /\ LET h0 == IF s0 = <<>>
                       THEN categorical(Deref(heap, mdl.populations_), draw(smp.pos))
                       ELSE s0[1]
                 p1 == IF s0 = <<>> THEN smp.pos + 1 ELSE smp.pos
                 x0 == IF o0 = <<>>
                       THEN multivariate_normal(
                               <<Deref(heap, mdl.means_)[h0 + 1][1], 1>>,
                               Deref(heap, mdl.covars_)[h0 + 1][1][1], 1, draw(p1))
                       ELSE o0[1]
                 p2 == IF o0 = <<>> THEN p1 + 1 ELSE p1
             IN  smp' = [smp EXCEPT
                    !.pos = p2,
                    !.call = [active |-> TRUE, n_samples |-> n, init_state |-> s0,
                              init_obs |-> o0, start |-> smp.pos, t |-> 0,
                              obs |-> [j \in 1..n |-> IF j = 1 THEN x0 ELSE <<0, 1>>],
                              hidden_state |-> [j \in 1..n |-> IF j = 1 THEN h0 ELSE 0]]]
    /\ UNCHANGED <<cfg, mdl, eng, heap, pc, loc, best_fit, trace, hist, wells>>

\* (the loop's body with the two draws in the other order)
sample_step_state_first ==
    /\ smp.call.active
    /\ smp.call.t < smp.call.n_samples - 1
    /\ LET c == smp.call
           t == c.t + 1
           k == c.hidden_state[t] + 1
           h == categorical(Deref(heap, mdl.transmat_)[k], draw(smp.pos))
           x == multivariate_normal(
                   dynamics(Deref(heap, mdl.As_)[k], Deref(heap, mdl.bs_)[k], c.obs[t]),
                   Deref(heap, mdl.Qs_)[k][1][1], EpsDen, draw(smp.pos + 1))
       IN  smp' = [smp EXCEPT !.pos = @ + 2, !.call.t = @ + 1,
                              !.call.obs[t + 1] = x, !.call.hidden_state[t + 1] = h]
    /\ UNCHANGED <<cfg, mdl, eng, heap, pc, loc, best_fit, trace, hist, wells>>

\* for t in range(n_samples - 1): one time update
sample_step ==
    /\ smp.call.active
    /\ smp.call.t < smp.call.n_samples - 1
    /\ LET c == smp.call
           t == c.t + 1
           k == c.hidden_state[t] + 1
           x == multivariate_normal(
                   dynamics(Deref(heap, mdl.As_)[k], Deref(heap, mdl.bs_)[k], c.obs[t]),
                   Deref(heap, mdl.Qs_)[k][1][1], EpsDen, draw(smp.pos))
           h == categorical(Deref(heap, mdl.transmat_)[k], draw(smp.pos + 1))
       IN  smp' = [smp EXCEPT !.pos = @ + 2, !.call.t = @ + 1,
                              !.call.obs[t + 1] = x, !.call.hidden_state[t + 1] = h]
    /\ UNCHANGED <<cfg, mdl, eng, heap, pc, loc, best_fit, trace, hist, wells>>

\* return obs, hidden_state
sample_return ==
    /\ smp.call.active
    /\ smp.call.t = smp.call.n_samples - 1
    /\ smp' = [smp EXCEPT !.call = NoCall,
                          !.first = IF smp.first = <<>> THEN smp.call ELSE @,
                          !.second = IF smp.first = <<>> THEN @ ELSE smp.call]
    /\ UNCHANGED <<cfg, mdl, eng, heap, pc, loc, best_fit, trace, hist, wells>>

\* np.random.seed with the seed used before: the stream starts again.
np_random_seed ==
    /\ ~ smp.call.active
    /\ smp.first # <<>>
    /\ smp.second = <<>>
    /\ smp.pos # 0
    /\ smp' = [smp EXCEPT !.pos = 0]
    /\ UNCHANGED <<cfg, mdl, eng, heap, pc, loc, best_fit, trace, hist, wells>>

\* A model with parameters (a hot start and one M-step), and a seeded generator.
InitSample ==
    /\ \E n_states \in 1..MaxStates, s \in 1..MaxLL :
          /\ cfg = [n_states |-> n_states, n_features |-> 1, n_init |-> 1,
                    params |-> AllParams, n_em_iter |-> 1, n_hotstart |-> 0]
          /\ \E S \in {[mdl |-> NoModel, eng |-> NoEngine, heap |-> <<>>]} :
             \E I \in {_init(S, MaxPool, 1)} :
             \E T \in {_do_mstep(I, s, AllParams)} :
                mdl = T.mdl /\ eng = T.eng /\ heap = T.heap
    /\ pc = "idle"
    /\ loc = NoLocals
    /\ best_fit = NoBest
    /\ trace = <<>>
    /\ hist = NoHist
    /\ wells = <<>>
    /\ \E st \in [1..StreamLen -> 0..(DrawVals - 1)] :
          smp = [stream |-> st, pos |-> 0, call |-> NoCall,
                 first |-> <<>>, second |-> <<>>]

NextSample ==
    \/ sample
    \/ sample_step
    \/ sample_return
    \/ np_random_seed

SpecSample == InitSample /\ [][NextSample]_vars

\* ============================================================ properties
Last(q) == q[Len(q)]
ByFit == trace = <<>> \/ Last(trace).by = "fit"
Max(a, b) == IF a >= b THEN a ELSE b

\* The restart best-fit selection keeps: the first one whose final
\* log-likelihood no other restart exceeds.
IsBest(r) ==
    /\ \A q \in 1..Len(hist.restarts) : hist.restarts[q].ll <= hist.restarts[r].ll
    /\ \A q \in 1..(r - 1) : hist.restarts[q].ll < hist.restarts[r].ll

\* C1: after fit returns, each of the seven exposed parameters equals the value
\* it had at the end of the restart with the highest log-likelihood.
C1_FinalParamsAreBestRestarts ==
    pc = "done" =>
        \E r \in 1..Len(hist.restarts) :
            /\ IsBest(r)
            /\ \A f \in Fields : ParamVals(mdl, heap)[f] = hist.restarts[r].end[f]

\* C2: the log-likelihood a restart is ranked by was computed by an E-step under
\* exactly the parameters of the restart's snapshot (no M-step in between).
C2_RankedLikelihoodIsTheSnapshots ==
    \A r \in 1..Len(hist.restarts) : hist.restarts[r].atE = hist.restarts[r].end

\* C3: after fit returns, fit_logprob_ holds, in iteration order, exactly the
\* E-step log-likelihoods of the iterations n_hotstart <= i < n_em_iter of the
\* selected restart; its length is max(0, n_em_iter - n_hotstart).
C3_FitLogprobIsBestTrajectory ==
    pc = "done" =>
        \E r \in 1..Len(hist.restarts) :
            /\ IsBest(r)
            /\ Len(hist.restarts[r].lls) = cfg.n_em_iter
            /\ mdl.fit_logprob_ =
                  [j \in 1..Max(0, cfg.n_em_iter - cfg.n_hotstart) |->
                      hist.restarts[r].lls[cfg.n_hotstart + j]]

\* C3's case: two restarts of two iterations, the first one selected, its first
\* iteration a burn-in one, and the other restart's trajectory different.
C3_Witness ==
    /\ pc = "done"
    /\ cfg.n_init = 2 /\ cfg.n_em_iter = 2 /\ cfg.n_hotstart = 1
    /\ IsBest(1)
    /\ hist.restarts[1].lls = <<1, 2>>
    /\ hist.restarts[2].lls = <<2, 1>>
    /\ mdl.fit_logprob_ = <<2>>

\* C4 as claimed: fit surfaces an error only when all n_init restarts failed
\* (every restart was run, none completed).
C4_ErrorOnlyWhenAllRestartsFail ==
    pc = "raised" => Len(hist.restarts) = 0 /\ loc.r + 1 = cfg.n_init

\* C4, amended: an error raised in restart r ends fit there. The restarts before
\* r completed, no restart after r runs, and no final value is set.
C4_FirstErrorEndsFit ==
    pc = "raised" =>
        /\ loc.r < cfg.n_init
        /\ Len(hist.restarts) = loc.r
        /\ mdl.vars_ = 0
        /\ mdl.fit_logprob_ = <<>>
        /\ ByFit => /\ trace # <<>>
                    /\ Last(trace).r = loc.r
                    /\ \A n \in 1..Len(trace) : trace[n].r <= loc.r

\* C4's case: a restart completed, the next one's E-step raised, and the error
\* is what the caller gets.
C4_Witness ==
    /\ pc = "raised"
    /\ loc.raised = "NumericalInstabilityError"
    /\ Len(hist.restarts) = 1
    /\ best_fit.params # <<>>

FitRanInit == pc \notin {"idle", "init"}
NoStepOfRestart ==
    ByFit => \A n \in 1..Len(trace) :
                trace[n].r = loc.r => trace[n].op \notin {"E", "M"}

\* C5 as claimed: a pool of fewer points than n_states makes initialization
\* fail with an InitializationError before any E-step or M-step of the restart.
C5_InitializationErrorBeforeEM ==
    (FitRanInit /\ loc.sequences < cfg.n_states) =>
        /\ pc = "raised"
        /\ loc.raised = "InitializationError"
        /\ NoStepOfRestart

\* C5, amended: such a pool makes _init fail in its KMeans call, with the
\* clustering's ValueError, before any parameter is assigned and before any
\* E-step or M-step of the restart.
C5_ValueErrorBeforeEM ==
    (FitRanInit /\ loc.sequences < cfg.n_states) =>
        /\ pc = "raised"
        /\ loc.raised = "ValueError"
        /\ loc.r = 0
        /\ NoStepOfRestart
        /\ ByFit => trace = <<[op |-> "INIT", by |-> "fit", r |-> 0, i |-> 0]>>
        /\ \A f \in Fields : mdl[f] = 0

\* C5's case: two states wanted, one point in the pool, the error raised.
C5_Witness ==
    /\ pc = "raised"
    /\ cfg.n_states = 2
    /\ loc.sequences = 1
    /\ loc.raised = "ValueError"

IsUniform(row) == \A k \in 1..Len(row) : row[k][1] * Len(row) = row[k][2]

\* C8: at the start of every restart transmat and populations are uniform over
\* the n_states states; in every state of fit and in the fitted model every
\* transmat row is non-negative and sums to 1, and populations sums to 1.
C8_TransmatRowStochastic ==
    /\ (pc = "estep" /\ loc.i = 0) =>
          /\ Len(Deref(heap, mdl.transmat_)) = cfg.n_states
          /\ \A a \in 1..cfg.n_states :
                /\ Len(Deref(heap, mdl.transmat_)[a]) = cfg.n_states
                /\ IsUniform(Deref(heap, mdl.transmat_)[a])
          /\ Len(Deref(heap, mdl.populations_)) = cfg.n_states
          /\ IsUniform(Deref(heap, mdl.populations_))
    /\ mdl.transmat_ # 0 =>
          \A a \in 1..cfg.n_states : IsDistribution(Deref(heap, mdl.transmat_)[a])
    /\ mdl.populations_ # 0 => IsDistribution(Deref(heap, mdl.populations_))
    /\ pc \in {"estep", "mstep", "select", "final", "done"} =>
          mdl.transmat_ # 0 /\ mdl.populations_ # 0

\* C8's case: a fitted two-state model whose transmat the M-steps moved away
\* from the uniform one.
C8_Witness ==
    /\ pc = "done"
    /\ cfg.n_states = 2
    /\ ~ IsUniform(Deref(heap, mdl.transmat_)[1])

\* C9: score performs exactly one E-step and no M-step, and leaves every model
\* parameter and its engine copy unchanged, before and after fit.
C9_ScoreOneEStepNoChange ==
    [][(trace' # <<>> /\ Last(trace').by = "score") =>
          /\ trace' = <<[op |-> "E", by |-> "score", r |-> loc.r, i |-> loc.i]>>
          /\ mdl' = mdl
          /\ ParamVals(mdl', heap') = ParamVals(mdl, heap)
          /\ EngineVals(eng', heap') = EngineVals(eng, heap)
          /\ \A f \in Fields : eng'[EngName(f)] = eng[EngName(f)]]_vars

\* C9's case: score was called on a fitted model.
C9_Witness ==
    /\ pc = "done"
    /\ trace # <<>>
    /\ Last(trace).by = "score"

\* The parameters are as _init left them: _init was the last step taken.
JustInitialized == trace # <<>> /\ Last(trace).op = "INIT" /\ pc # "raised"

\* C6: after _init, for every state k and every n_features, A[k] = (1 - eps) * I:
\* every diagonal entry is 1 - eps and every off-diagonal entry is 0.
C6_InitialAIsDampedIdentity ==
    JustInitialized =>
        \A k \in 1..cfg.n_states : \A a, b \in 1..cfg.n_features :
            Deref(heap, mdl.As_)[k][a][b] = IF a = b THEN EpsDen - EpsNum ELSE 0

\* C7: after _init, for every state k, b[k] = (I - A[k]) means[k], I - A[k] is
\* invertible, means[k] is the fixed point of x -> A[k] x + b[k], and
\* compute_metastable_wells returns wells[k] = means[k].
C7_InitialWellsAreMeans ==
    JustInitialized =>
        LET As == Deref(heap, mdl.As_)
            bs == Deref(heap, mdl.bs_)
            means == Deref(heap, mdl.means_)
            w == wells_of(Store)
        IN  \A k \in 1..cfg.n_states :
                /\ bs[k] = dot(eye_minus(As[k]), means[k])
                /\ det(eye_minus(As[k])) # 0
                /\ \A a \in 1..cfg.n_features :
                      SumTo([b \in 1..cfg.n_features |-> As[k][a][b] * means[k][b]],
                            cfg.n_features) + bs[k][a] = EpsDen * means[k][a]
                /\ w.raised = ""
                /\ \A a \in 1..cfg.n_features :
                      w.wells[k][a][1] = means[k][a] * w.wells[k][a][2]

\* What sample's loop computes for a returned run R: entry t+1 of the
\* observations is drawn first, entry t+1 of the hidden states second, both
\* from the parameters of hidden state t.
FollowsTheDraws(R) ==
    LET used == (IF R.init_state = <<>> THEN 1 ELSE 0) + (IF R.init_obs = <<>> THEN 1 ELSE 0)
    IN  \A t \in 1..(R.n_samples - 1) :
            LET k == R.hidden_state[t] + 1
                at == R.start + used + 2 * (t - 1)
            IN  /\ R.obs[t + 1] =
                      multivariate_normal(
                          dynamics(Deref(heap, mdl.As_)[k], Deref(heap, mdl.bs_)[k], R.obs[t]),
                          Deref(heap, mdl.Qs_)[k][1][1], EpsDen, draw(at))
                /\ R.hidden_state[t + 1] =
                      categorical(Deref(heap, mdl.transmat_)[k], draw(at + 1))

StartsAsGiven(R) ==
    /\ Len(R.obs) = R.n_samples /\ Len(R.hidden_state) = R.n_samples
    /\ R.init_state # <<>> => R.hidden_state[1] = R.init_state[1]
    /\ R.init_obs # <<>> => R.obs[1] = R.init_obs[1]

SameInputs(R1, R2) ==
    /\ R1.n_samples = R2.n_samples
    /\ R1.init_state = R2.init_state
    /\ R1.init_obs = R2.init_obs
    /\ R1.start = R2.start

\* C10: two runs of sample with the same parameters, n_samples, init_state,
\* init_obs and the same stream of draws return identical observations and
\* hidden states; entry 0 is the supplied init_obs and init_state, and for every
\* t obs[t+1] is drawn with the dynamics of hidden_state[t] before
\* hidden_state[t+1] is drawn from the transmat row of hidden_state[t].
C10_SampleDeterministicInOrder ==
    /\ \A R \in {smp.first, smp.second} \ {<<>>} : StartsAsGiven(R) /\ FollowsTheDraws(R)
    /\ (smp.first # <<>> /\ smp.second # <<>> /\ SameInputs(smp.first, smp.second)) =>
          /\ smp.first.obs = smp.second.obs
          /\ smp.first.hidden_state = smp.second.hidden_state

\* C10's case: two runs of the longest trajectory from one seed and one given
\* start, in which the hidden state changed.
C10_Witness ==
    /\ smp.first # <<>> /\ smp.second # <<>>
    /\ SameInputs(smp.first, smp.second)
    /\ smp.second.n_samples = MaxSamples
    /\ smp.second.init_state # <<>> /\ smp.second.init_obs # <<>>
    /\ smp.second.hidden_state[2] # smp.second.hidden_state[1]

\* The steps of a fit call that runs to its end, by position n = 1, 2, ...:
\* restart after restart, each one INIT and then n_em_iter times E, M.
StepsPerRestart == 1 + 2 * cfg.n_em_iter
ExpectedRestart(n) == (n - 1) \div StepsPerRestart
ExpectedOp(n) ==
    LET k == (n - 1) % StepsPerRestart
    IN  IF k = 0 THEN "INIT" ELSE IF k % 2 = 1 THEN "E" ELSE "M"
ExpectedIter(n) == (((n - 1) % StepsPerRestart) - 1) \div 2

\* C11: the steps of a fit call are, for each of n_init restarts, one INIT and
\* then n_em_iter (E-step, M-step) pairs: every M-step directly follows the
\* E-step of its iteration, no two E-steps of a restart are adjacent, and a fit
\* that returns has run exactly n_init restarts (one that raises stops inside
\* this sequence).
C11_StepsAlternate ==
    ByFit =>
        /\ Len(trace) <= cfg.n_init * StepsPerRestart
        /\ \A n \in 1..Len(trace) :
              /\ trace[n].op = ExpectedOp(n)
              /\ trace[n].r = ExpectedRestart(n)
              /\ trace[n].op # "INIT" => trace[n].i = ExpectedIter(n)
              /\ trace[n].op = "M" =>
                    /\ n > 1
                    /\ trace[n - 1].op = "E"
                    /\ trace[n - 1].r = trace[n].r
                    /\ trace[n - 1].i = trace[n].i
              /\ (trace[n].op = "E" /\ n > 1) => trace[n - 1].op # "E"
        /\ pc \in {"final", "done"} => Len(trace) = cfg.n_init * StepsPerRestart
        /\ pc = "estep" => trace # <<>> /\ Last(trace).op \in {"INIT", "M"}
        /\ pc = "mstep" => trace # <<>> /\ Last(trace).op = "E"

\* C11's case: a fit of two restarts of two iterations each returned.
C11_Witness ==
    /\ pc = "done"
    /\ ByFit
    /\ cfg.n_init = 2 /\ cfg.n_em_iter = 2
    /\ Len(trace) = 10
    /\ [n \in 1..10 |-> trace[n].op] =
          <<"INIT", "E", "M", "E", "M", "INIT", "E", "M", "E", "M">>

\* An E-step can start here: fit is about to call do_estep, or no call is
\* running and score may be called.
EStepCanStart == pc \in {"estep", "idle", "done", "raised"}

\* C12: whenever an E-step starts, in fit or in score, the engine's copy of each
\* of the seven parameters (startprob_ for populations_) is the model's current
\* value of it, whatever assignments, in-place updates of _init, M-steps,
\* restarts and final restore came before; and what the last E-step of fit read
\* is what the model held.
C12_EngineInSyncAtEStep ==
    /\ EStepCanStart => EngineVals(eng, heap) = ParamVals(mdl, heap)
    /\ pc = "mstep" => hist.atE = ParamVals(mdl, heap)

\* C12's case: score runs its E-step on a model whose fit restored the first of
\* two restarts, the second one having ended with other parameters.
C12_Witness ==
    /\ pc = "done"
    /\ trace # <<>> /\ Last(trace).by = "score"
    /\ Len(hist.restarts) = 2
    /\ IsBest(1)
    /\ hist.restarts[1].end.As_ # hist.restarts[2].end.As_
    /\ ParamVals(mdl, heap).As_ = hist.restarts[1].end.As_

\* The key under which best_fit['params'] keeps the parameter f.
SnapKey(f) == [means_ |-> "means", covars_ |-> "covars", As_ |-> "As", bs_ |-> "bs",
               Qs_ |-> "Qs", populations_ |-> "populations",
               transmat_ |-> "transmat"][f]

\* The values the arrays of the saved snapshot hold now.
SnapshotVals == [f \in Fields |-> Deref(heap, best_fit.params[SnapKey(f)])]

\* C13: the snapshot saved as the best at the end of a restart is not changed by
\* any later restart: at every later point of fit each of its arrays holds what
\* the saving restart ended with, and the values the final assignments hand to
\* the model (vars_ for covars) are those.
C13_SnapshotUntouchedByLaterRestarts ==
    best_fit.params # <<>> =>
        \E r \in 1..Len(hist.restarts) :
            /\ IsBest(r)
            /\ SnapshotVals = hist.restarts[r].end
            /\ best_fit.params.fit_logprob =
                  [j \in 1..Max(0, cfg.n_em_iter - cfg.n_hotstart) |->
                      hist.restarts[r].lls[cfg.n_hotstart + j]]
            /\ pc = "done" =>
                  /\ \A f \in Fields \ {"covars_"} :
                        ParamVals(mdl, heap)[f] = hist.restarts[r].end[f]
                  /\ Deref(heap, mdl.vars_) = hist.restarts[r].end.covars_

\* C13's case: the first of two restarts was saved, the second one ran its
\* initialization and M-steps to other values of every updated parameter, and the
\* final assignments are next.
C13_Witness ==
    /\ pc = "final"
    /\ cfg.params = AllParams
    /\ cfg.n_states = 2
    /\ Len(hist.restarts) = 2
    /\ IsBest(1)
    /\ \A f \in Fields \ {"bs_"} : hist.restarts[1].end[f] # hist.restarts[2].end[f]
    /\ SnapshotVals = hist.restarts[1].end
====
